---- MODULE Spec2Model ----
(***************************************************************************)
(* Model of the batching sinks of src/business-telemetry/fabric_sinks.py:  *)
(* BaseSink (buffer, asyncio lock, periodic flush task, start/stop),       *)
(* CompositeSink (fan-out to child sinks, start/stop), EventHubSink        *)
(* (producer handle, physical batches), OneLakeSink and FileSink (files    *)
(* and directories of a batch), and of BusinessTelemetryClient             *)
(* (telemetry_client.py: start, stop, emit, emit_batch).                   *)
(*                                                                         *)
(* asyncio runs one coroutine at a time and switches only at an await that *)
(* suspends, so one action is the code between two suspension points.      *)
(* The suspension points of BaseSink are: the sleep of the periodic task,  *)
(* waiting for the lock, the destination write (_send_batch_impl) and, in  *)
(* stop(), awaiting the cancelled task.                                    *)
(***************************************************************************)
EXTENDS Integers, Sequences, FiniteSets, TLC

\* ---------------------------------------------------------------- bounds
MaxEvents == 4          \* send() calls made in one behaviour
MaxTasks == 2           \* start() calls made in one behaviour
MaxBatchCalls == 1      \* send_batch() calls made in one behaviour
batch_size == 2         \* the sink's configured batch size
NumChildren == 3        \* child sinks of the composite sink
composite_batch_size == 1   \* CompositeSink.__init__: batch_size=1
MaxWriters == 2         \* batch writes of an EventHubSink in progress at once
BatchCapacity == 2      \* the provider's size ceiling of one physical batch
MaxInput == 2           \* events in one logical batch given to EventHubSink
MaxHandles == 2         \* producer handles constructed in one behaviour
MaxBatchLen == 3        \* events in one batch written by OneLakeSink or FileSink
MaxLifeCalls == 4       \* calls of sink.start / sink.stop made by one client
MaxBodyEmits == 2       \* emits in the body of one session_context
MaxValueLen == 2        \* characters of the value of an event printed by ConsoleSink
MaxConsoleBatch == 2    \* events in one batch written by ConsoleSink

Tasks == 1..MaxTasks                  \* periodic flush tasks, in creation order
Callers == {0 - 1, 0 - 2}             \* caller coroutines using the sink
Procs == Tasks \cup Callers
Events == 1..MaxEvents                \* events given to send(), in call order
BatchInputs == {<<91>>, <<91, 92>>}   \* event lists given to send_batch()
Outcomes == {"ok", "exc"}             \* a destination write returns or raises Exception
Children == 1..NumChildren            \* CompositeSink.sinks, in list order
\* a child's send_batch returns success=True, returns success=False, or raises
ChildOutcomes == {"ok", "fail", "raise"}
EHWriters == 1..MaxWriters            \* concurrent runs of EventHubSink._send_batch_impl
Sizes == 1..(BatchCapacity + 1)       \* serialized sizes of an event; the largest fits no batch
\* event lists given to EventHubSink._send_batch_impl, each event by its size
EHInputs == UNION {[1..n -> Sizes] : n \in 1..MaxInput}
SinkKinds == {"eventhub", "onelake"}
\* event types, as strings of characters; two of them differ in '.' against '_'
EventTypes == {<<"a", ".", "b">>, <<"a", "_", "b">>, <<"c">>}
\* batches given to OneLakeSink / FileSink, each event by its event_type
TypedBatches == UNION {[1..n -> EventTypes] : n \in 1..MaxBatchLen}
\* UTC dates the clock shows at a write
Dates == [year : {2024}, month : {3, 11}, day : {7, 23}]
FileSinkKinds == {"onelake", "file"}

VARIABLES
    buffer,      \* self._buffer
    lockQ,       \* self._lock: its owner (head) followed by the FIFO waiters
    running,     \* self._running
    flushTask,   \* self._flush_task: a task id, 0 for None
    pc,          \* where each coroutine is suspended
    arg,         \* the local `events` (or the pending event) of each coroutine
    writes,      \* destination writes that completed, oldest first
    ret,         \* what the call that returned last returned
    snap,        \* per caller inside stop(): the events accepted when it was called
    nextId,      \* the next event to be sent
    failed,      \* whether a destination write has raised so far
    plain,       \* whether send() is the only operation called so far
    nbatch,      \* send_batch() calls so far
    fail_fast,   \* CompositeSink.fail_fast
    cOp,         \* the composite operation in progress, "none" if none
    cEvents,     \* the events of the composite's batch write
    calls,       \* the child send_batch calls of that write, in call order
    cImpl        \* how CompositeSink._send_batch_impl ended for that write

\* The state of the other components, one record for each.
VARIABLES
    ad,   \* EventHubSink / OneLakeSink: the destination client and its availability
    ew,   \* per run of EventHubSink._send_batch_impl: where it is and its locals
    pt,   \* OneLakeSink / FileSink: the files of one batch write
    lf,   \* CompositeSink.start / CompositeSink.stop
    kl    \* BusinessTelemetryClient

\* the fields of ad
sinkKind == ad.sinkKind                      \* which adapter: "eventhub" or "onelake"
available == ad.available                    \* EVENTHUB_AVAILABLE / ONELAKE_AVAILABLE
unavailable_logged == ad.unavailable_logged  \* self._unavailable_logged
warnings == ad.warnings                      \* 'package not installed' warnings logged
dropped == ad.dropped                        \* batches skipped for want of the library
producer == ad.producer                      \* self._producer: a handle id, 0 for None
nHandles == ad.nHandles                      \* producer handles constructed so far
raisedOn == ad.raisedOn                      \* handles on which a provider call raised

\* the fields of ew, per writer
epc == [w \in DOMAIN ew |-> ew[w].pc]        \* where the run is suspended
eh == [w \in DOMAIN ew |-> ew[w].h]          \* its local `producer`
eIn == [w \in DOMAIN ew |-> ew[w].events]    \* its `events`, each by its serialized size
eIdx == [w \in DOMAIN ew |-> ew[w].idx]      \* the position of the event its loop is at
eBatch == [w \in DOMAIN ew |-> ew[w].batch]  \* its `event_batch`: the positions added
eSent == [w \in DOMAIN ew |-> ew[w].sent]    \* the provider send_batch calls it issued

\* the fields of pt
pKind == pt.kind                             \* which sink: "onelake" or "file"
partition_by_type == pt.by_type              \* FileSink.partition_by_type
partition_by_date == pt.by_date              \* FileSink.partition_by_date
pBatch == pt.batch                           \* the event types of the batch written last
pDate == pt.date                             \* datetime.now(timezone.utc) at that write
pFiles == pt.files                           \* the files that write made, in order
olClient == pt.client                        \* OneLakeSink._client: a handle id, 0 for None
olMade == pt.made                            \* DataLakeServiceClient objects constructed
olClosed == pt.closed                        \* the handles that were closed
olUse == pt.use                              \* the handle of the last batch write, and
                                             \* whether it was open when the write began
pretty_print == pt.pretty                    \* ConsoleSink.pretty_print
stdout == pt.out                             \* what the last console write printed

\* the fields of lf
lOp == lf.op                                 \* the lifecycle call made last
lLog == lf.log                               \* the calls it made on the children, in order

\* the fields of kl
enabled == kl.enabled                        \* self.enabled
started == kl.started                        \* self._started
sinkCalls == kl.sinkCalls                    \* the methods of self.sink called so far
kWrite == kl.write                           \* how the write of the last client call ended
sinkLife == kl.life                          \* the calls of self.sink.start / self.sink.stop
kSkipped == kl.skipped                       \* the last start()/stop() returned early
context == kl.ctx                            \* self._session_id, _user_id, _correlation_id
default_source == kl.source                  \* self.default_source (its value)
environment == kl.environment                \* self.environment
service_version == kl.service_version        \* self.service_version
lastEmit == kl.last                          \* the last event emitted and what sink.send got
sends == kl.sends                            \* event types given to sink.send, in order
session == kl.ses                            \* the session_context in progress or left last

bvars == <<buffer, lockQ, running, flushTask, pc, arg, writes, ret, snap, nextId,
           failed, plain, nbatch>>
cvars == <<fail_fast, cOp, cEvents, calls, cImpl>>
avars == <<ad, ew>>
pvars == <<pt>>
lvars == <<lf>>
kvars == <<kl>>
xvars == <<ad, ew, pt, lf, kl>>
vars == <<bvars, cvars, xvars>>

\* ------------------------------------------------------------ return values
NoRet == [op |-> "none", kind |-> "none", success |-> FALSE, sent |-> 0]
\* SinkResult(success, events_sent)
SinkResult(op, success, sent) ==
    [op |-> op, kind |-> "result", success |-> success, sent |-> sent]
BoolRet(op, b) == [op |-> op, kind |-> "bool", success |-> b, sent |-> 0]
VoidRet(op) == [op |-> op, kind |-> "void", success |-> TRUE, sent |-> 0]
Raised(op) == [op |-> op, kind |-> "raise", success |-> FALSE, sent |-> 0]

\* ------------------------------------------------------------ the lock
\* a slip: the lock never makes anyone wait
Free_always == TRUE
Free == lockQ = <<>>
Remove(q, p) == SelectSeq(q, LAMBDA x : x # p)

\* ------------------------------------------------------------ helpers
Range(s) == {s[i] : i \in 1..Len(s)}
Last(s) == s[Len(s)]
Delivered == UNION {Range(writes[i]) : i \in 1..Len(writes)}
InFlight == UNION {Range(arg[p]) : p \in {q \in Procs : pc[q] \in
                {"writing", "send_write", "flush_write", "stop_write"}}}
Live(t) == pc[t] \in {"new", "sleep", "lockwait", "writing"}
LiveTasks == {t \in Tasks : Live(t)}
Created == {t \in Tasks : pc[t] # "none"}
StopPcs == {"stop_await", "stop_lock", "stop_write"}
\* the event a caller's send() in progress is about
Pending(c) == IF pc[c] = "send_lock" THEN {arg[c][1]}
              ELSE IF pc[c] = "send_write" THEN {Last(arg[c])} ELSE {}
\* events whose send() has returned
Accepted == (1..(nextId - 1)) \ UNION {Pending(c) : c \in Callers}

\* a run of EventHubSink._send_batch_impl that is not in progress
IdleWriter == [pc |-> "idle", h |-> 0, events |-> <<>>, idx |-> 0, batch |-> <<>>,
               sent |-> <<>>]
WritersIdle == ew = [w \in EHWriters |-> IdleWriter]

\* EventHubSink.__init__ / OneLakeSink.__init__: no client yet, nothing logged
NewAdapter(kind, avail) ==
    [sinkKind |-> kind, available |-> avail, unavailable_logged |-> FALSE,
     warnings |-> 0, dropped |-> <<>>, producer |-> 0, nHandles |-> 0, raisedOn |-> {}]

\* the sinks of the other specifications are not in use
AdapterIdle == ad = NewAdapter("eventhub", TRUE) /\ WritersIdle

\* OneLakeSink / FileSink constructed, nothing written
NewPartition(kind, by_type, by_date) ==
    [kind |-> kind, by_type |-> by_type, by_date |-> by_date, batch |-> <<>>,
     date |-> [year |-> 0, month |-> 0, day |-> 0], files |-> <<>>,
     pretty |-> TRUE, out |-> <<>>,
     client |-> 0, made |-> 0, closed |-> {}, use |-> [handle |-> 0, open |-> TRUE]]

PartitionIdle == pt = NewPartition("file", TRUE, TRUE)

\* no start() or stop() of a composite was called
LifeIdle == lf = [op |-> "none", log |-> <<>>]

\* BusinessTelemetryClient.__init__
Nil == "None"                                \* Python's None

\* a BaseEvent: the fields emit() may change, with the dataclass defaults of the
\* others
Event(type, source, cid, sid, uid) ==
    [event_type |-> type, event_source |-> source, correlation_id |-> cid,
     session_id |-> sid, user_id |-> uid,
     environment |-> "production", service_version |-> "1.0.0"]

\* BaseEvent.to_dict: asdict without the fields that are None
to_dict(event) == [f \in {g \in DOMAIN event : event[g] # Nil} |-> event[f]]

NoContext == [session_id |-> Nil, user_id |-> Nil, correlation_id |-> Nil]
NoEvent == Event("", "", Nil, Nil, Nil)
NoEmit == [some |-> FALSE, given |-> NoEvent, ctx |-> NoContext, dict |-> to_dict(NoEvent)]
NoSession ==
    [pc |-> "none", emits |-> FALSE, base |-> 0, k |-> 0, raised |-> FALSE,
     sid |-> Nil, uid |-> Nil]

\* a client over its sink, with the constructor's configuration
NewClientOf(en, source, env, version) ==
    [enabled |-> en, started |-> FALSE, sinkCalls |-> {}, write |-> "none",
     life |-> <<>>, skipped |-> FALSE,
     ctx |-> NoContext, source |-> source, environment |-> env,
     service_version |-> version,
     last |-> NoEmit, sends |-> <<>>, ses |-> NoSession]

NewClient(en) == NewClientOf(en, Nil, "production", "1.0.0")

\* no client is in use
ClientIdle == kl = NewClient(TRUE)

OthersIdle == AdapterIdle /\ PartitionIdle /\ LifeIdle /\ ClientIdle

InitCore ==
    /\ buffer = <<>>
    /\ lockQ = <<>>
    /\ running = FALSE
    /\ flushTask = 0
    /\ pc = [p \in Procs |-> IF p \in Tasks THEN "none" ELSE "idle"]
    /\ arg = [p \in Procs |-> <<>>]
    /\ writes = <<>>
    /\ ret = NoRet
    /\ snap = [c \in Callers |-> {}]
    /\ nextId = 1
    /\ failed = FALSE
    /\ plain = TRUE
    /\ nbatch = 0
    /\ cOp = "none"
    /\ cEvents = <<>>
    /\ calls = <<>>
    /\ cImpl = "none"

InitSink == InitCore /\ OthersIdle

\* a sink with fail_fast unset (BaseSink has none; CompositeSink's default)
Init == InitSink /\ fail_fast = FALSE

\* ------------------------------------------------- BaseSink._flush_internal
\* a slip: the except branch logs the failure and forgets the drained events
flush_internal_except_drop(events, buf) ==
    [buffer |-> buf, kind |-> "result", success |-> FALSE, sent |-> 0]

\* a slip: the handler does not catch what the write raises
flush_internal_except_raise(events, buf) ==
    [buffer |-> buf, kind |-> "raise", success |-> FALSE, sent |-> 0]

\* the except branch: re-add the drained events, return a failed result
flush_internal_except(events, buf) ==
    [buffer |-> buf \o events, kind |-> "result", success |-> FALSE, sent |-> 0]

\* the try branch after the write returned
flush_internal_ok(events, buf) ==
    [buffer |-> buf, kind |-> "result", success |-> TRUE, sent |-> Len(events)]

\* what _flush_internal does once the write of `events` ended with `outcome`
flush_internal(outcome, events, buf) ==
    IF outcome = "ok" THEN flush_internal_ok(events, buf)
    ELSE flush_internal_except(events, buf)

\* the effect of a destination write on the history
WriteEffect(outcome, events) ==
    /\ writes' = IF outcome = "ok" THEN Append(writes, events) ELSE writes
    /\ failed' = (failed \/ outcome = "exc")
    /\ plain' = (plain /\ outcome = "ok")

\* ------------------------------------------------- BaseSink._periodic_flush
\* `while self._running`: go to sleep, or leave the loop
LoopPc == IF running THEN "sleep" ELSE "done"

\* the task runs for the first time
TaskRun(t) ==
    /\ pc[t] = "new"
    /\ pc' = [pc EXCEPT ![t] = LoopPc]
    /\ UNCHANGED <<buffer, lockQ, running, flushTask, arg, writes, ret,
                   snap, nextId, failed, plain, nbatch>>
    /\ UNCHANGED <<cvars, xvars>>

\* the sleep ends: `if self._buffer: await self.flush()`
TaskWake(t) ==
    /\ pc[t] = "sleep"
    /\ IF buffer = <<>>
       THEN /\ pc' = [pc EXCEPT ![t] = LoopPc]
            /\ UNCHANGED <<buffer, lockQ, arg>>
       ELSE IF Free
       THEN /\ pc' = [pc EXCEPT ![t] = "writing"]
            /\ lockQ' = <<t>>
            /\ arg' = [arg EXCEPT ![t] = buffer]
            /\ buffer' = <<>>
       ELSE /\ pc' = [pc EXCEPT ![t] = "lockwait"]
            /\ lockQ' = Append(lockQ, t)
            /\ UNCHANGED <<buffer, arg>>
    /\ UNCHANGED <<running, flushTask, writes, ret, snap, nextId, failed,
                   plain, nbatch>>
    /\ UNCHANGED <<cvars, xvars>>

\* the task gets the lock it waited for and runs _flush_internal
TaskAcquire(t) ==
    /\ pc[t] = "lockwait"
    /\ lockQ # <<>> /\ Head(lockQ) = t
    /\ IF buffer = <<>>
       THEN /\ pc' = [pc EXCEPT ![t] = LoopPc]
            /\ lockQ' = Tail(lockQ)
            /\ UNCHANGED <<buffer, arg>>
       ELSE /\ pc' = [pc EXCEPT ![t] = "writing"]
            /\ arg' = [arg EXCEPT ![t] = buffer]
            /\ buffer' = <<>>
            /\ UNCHANGED lockQ
    /\ UNCHANGED <<running, flushTask, writes, ret, snap, nextId, failed,
                   plain, nbatch>>
    /\ UNCHANGED <<cvars, xvars>>

\* the task's destination write ends
TaskWriteDone(t, outcome) ==
    /\ pc[t] = "writing"
    /\ WriteEffect(outcome, arg[t])
    /\ LET r == flush_internal(outcome, arg[t], buffer) IN
        /\ buffer' = r.buffer
        /\ pc' = [pc EXCEPT ![t] = IF r.kind = "raise" THEN "crashed" ELSE LoopPc]
    /\ lockQ' = Tail(lockQ)
    /\ arg' = [arg EXCEPT ![t] = <<>>]
    /\ UNCHANGED <<running, flushTask, ret, snap, nextId, nbatch>>
    /\ UNCHANGED <<cvars, xvars>>

\* ------------------------------------------------- BaseSink.start
start_task(created) == created + 1

Start(c) ==
    /\ pc[c] = "idle"
    /\ Cardinality(Created) < MaxTasks
    /\ LET t == start_task(Cardinality(Created)) IN
        /\ running' = TRUE
        /\ flushTask' = t
        /\ pc' = [pc EXCEPT ![t] = "new"]
    /\ ret' = VoidRet("start")
    /\ UNCHANGED <<buffer, lockQ, arg, writes, snap, nextId, failed, nbatch>>
    /\ plain' = FALSE
    /\ UNCHANGED <<cvars, xvars>>

\* ------------------------------------------------- BaseSink.send
\* a slip: flush only once the buffer is longer than the batch size
send_reaches_batch_gt(len) == len > batch_size

\* `if len(self._buffer) >= self.batch_size`
send_reaches_batch(len) == len >= batch_size

\* the body of send() under the lock; `released` is the lock once send lets go
SendLocked(c, e, released) ==
    LET b == Append(buffer, e) IN
    IF send_reaches_batch(Len(b))
    THEN /\ arg' = [arg EXCEPT ![c] = b]
         /\ buffer' = <<>>
         /\ pc' = [pc EXCEPT ![c] = "send_write"]
         /\ lockQ' = <<c>> \o released
         /\ UNCHANGED ret
    ELSE /\ buffer' = b
         /\ arg' = [arg EXCEPT ![c] = <<>>]
         /\ pc' = [pc EXCEPT ![c] = "idle"]
         /\ lockQ' = released
         /\ ret' = BoolRet("send", TRUE)

SendCall(c) ==
    /\ pc[c] = "idle"
    /\ nextId <= MaxEvents
    /\ nextId' = nextId + 1
    /\ IF Free
       THEN SendLocked(c, nextId, <<>>)
       ELSE /\ lockQ' = Append(lockQ, c)
            /\ pc' = [pc EXCEPT ![c] = "send_lock"]
            /\ arg' = [arg EXCEPT ![c] = <<nextId>>]
            /\ UNCHANGED <<buffer, ret>>
    /\ UNCHANGED <<running, flushTask, writes, snap, failed, plain, nbatch>>
    /\ UNCHANGED <<cvars, xvars>>

SendAcquire(c) ==
    /\ pc[c] = "send_lock"
    /\ lockQ # <<>> /\ Head(lockQ) = c
    /\ SendLocked(c, arg[c][1], Tail(lockQ))
    /\ UNCHANGED <<running, flushTask, writes, snap, nextId, failed, plain, nbatch>>
    /\ UNCHANGED <<cvars, xvars>>

\* ------------------------------------------------- BaseSink.flush
\* flush() under the lock: _flush_internal up to the destination write
FlushLocked(c, op, released) ==
    IF buffer = <<>>
    THEN /\ ret' = IF op = "stop" THEN VoidRet("stop") ELSE SinkResult(op, TRUE, 0)
         /\ pc' = [pc EXCEPT ![c] = "idle"]
         /\ lockQ' = released
         /\ UNCHANGED <<buffer, arg>>
    ELSE /\ arg' = [arg EXCEPT ![c] = buffer]
         /\ buffer' = <<>>
         /\ pc' = [pc EXCEPT ![c] = IF op = "stop" THEN "stop_write" ELSE "flush_write"]
         /\ lockQ' = <<c>> \o released
         /\ UNCHANGED ret

\* flush() entered: take the lock or wait for it
FlushEnter(c, op) ==
    IF Free
    THEN FlushLocked(c, op, <<>>)
    ELSE /\ lockQ' = Append(lockQ, c)
         /\ pc' = [pc EXCEPT ![c] = IF op = "stop" THEN "stop_lock" ELSE "flush_lock"]
         /\ UNCHANGED <<buffer, arg, ret>>

\* snap after a step of a caller: kept while the caller is inside stop()
SnapNext ==
    [c \in Callers |->
        IF pc'[c] \notin StopPcs THEN {}
        ELSE IF pc[c] \in StopPcs THEN snap[c] ELSE Accepted]

FlushCall(c) ==
    /\ pc[c] = "idle"
    /\ FlushEnter(c, "flush")
    /\ UNCHANGED <<running, flushTask, writes, snap, nextId, failed, nbatch>>
    /\ plain' = FALSE
    /\ UNCHANGED <<cvars, xvars>>

FlushAcquire(c) ==
    /\ pc[c] \in {"flush_lock", "stop_lock"}
    /\ lockQ # <<>> /\ Head(lockQ) = c
    /\ FlushLocked(c, IF pc[c] = "stop_lock" THEN "stop" ELSE "flush", Tail(lockQ))
    /\ snap' = SnapNext
    /\ UNCHANGED <<running, flushTask, writes, nextId, failed, plain, nbatch>>
    /\ UNCHANGED <<cvars, xvars>>

\* the destination write of a caller's send(), flush() or stop() ends
CallerWriteDone(c, outcome) ==
    /\ pc[c] \in {"send_write", "flush_write", "stop_write"}
    /\ WriteEffect(outcome, arg[c])
    /\ LET r == flush_internal(outcome, arg[c], buffer)
           op == IF pc[c] = "send_write" THEN "send"
                 ELSE IF pc[c] = "stop_write" THEN "stop" ELSE "flush" IN
        /\ buffer' = r.buffer
        /\ ret' = IF r.kind = "raise" THEN Raised(op)
                  ELSE IF op = "stop" THEN VoidRet("stop")
                  ELSE SinkResult(op, r.success, r.sent)
    /\ lockQ' = Tail(lockQ)
    /\ pc' = [pc EXCEPT ![c] = "idle"]
    /\ arg' = [arg EXCEPT ![c] = <<>>]
    /\ snap' = SnapNext
    /\ UNCHANGED <<running, flushTask, nextId, nbatch>>
    /\ UNCHANGED <<cvars, xvars>>

\* ------------------------------------------------- BaseSink.stop
\* self._flush_task.cancel() on a task that has not finished: CancelledError is
\* raised at the await the task is suspended in. It is a BaseException, so the
\* `except Exception` of _flush_internal does not handle it: a task cancelled
\* inside the destination write leaves with its drained events, and the
\* `async with` releases the lock.
cancel_pc(t) == "cancelled"

StopCall(c) ==
    /\ pc[c] = "idle"
    /\ running' = FALSE
    /\ IF flushTask # 0 /\ Live(flushTask)
       THEN /\ pc' = [pc EXCEPT ![flushTask] = cancel_pc(flushTask),
                                ![c] = "stop_await"]
            /\ lockQ' = Remove(lockQ, flushTask)
            /\ arg' = [arg EXCEPT ![flushTask] = <<>>]
            /\ UNCHANGED <<buffer, ret>>
       ELSE FlushEnter(c, "stop")
    /\ snap' = SnapNext
    /\ UNCHANGED <<flushTask, writes, nextId, failed, nbatch>>
    /\ plain' = FALSE
    /\ UNCHANGED <<cvars, xvars>>

\* `await self._flush_task` returns: the final flush() starts
StopResume(c) ==
    /\ pc[c] = "stop_await"
    /\ FlushEnter(c, "stop")
    /\ snap' = SnapNext
    /\ UNCHANGED <<running, flushTask, writes, nextId, failed, plain, nbatch>>
    /\ UNCHANGED <<cvars, xvars>>

\* ------------------------------------------------- BaseSink.send_batch
\* a slip: a failed send_batch keeps its events in the buffer, as a flush does
send_batch_requeue(outcome, events, buf) ==
    IF outcome = "ok"
    THEN [buffer |-> buf, kind |-> "result", success |-> TRUE, sent |-> Len(events)]
    ELSE [buffer |-> buf \o events, kind |-> "result", success |-> FALSE, sent |-> 0]

\* a slip: send_batch lets the exception of the write through to its caller
send_batch_propagate(outcome, events, buf) ==
    IF outcome = "ok"
    THEN [buffer |-> buf, kind |-> "result", success |-> TRUE, sent |-> Len(events)]
    ELSE [buffer |-> buf, kind |-> "raise", success |-> FALSE, sent |-> 0]

\* the try/except of send_batch once the write of `events` ended with `outcome`
send_batch(outcome, events, buf) ==
    IF outcome = "ok"
    THEN [buffer |-> buf, kind |-> "result", success |-> TRUE, sent |-> Len(events)]
    ELSE [buffer |-> buf, kind |-> "result", success |-> FALSE, sent |-> 0]

SendBatchCall(c, events) ==
    /\ pc[c] = "idle"
    /\ nbatch < MaxBatchCalls
    /\ nbatch' = nbatch + 1
    /\ pc' = [pc EXCEPT ![c] = "sb_write"]
    /\ arg' = [arg EXCEPT ![c] = events]
    /\ UNCHANGED <<buffer, lockQ, running, flushTask, writes, ret, snap, nextId, failed>>
    /\ plain' = FALSE
    /\ UNCHANGED <<cvars, xvars>>

SendBatchDone(c, outcome) ==
    /\ pc[c] = "sb_write"
    /\ WriteEffect(outcome, arg[c])
    /\ LET r == send_batch(outcome, arg[c], buffer) IN
        /\ buffer' = r.buffer
        /\ ret' = IF r.kind = "raise" THEN Raised("send_batch")
                  ELSE SinkResult("send_batch", r.success, r.sent)
    /\ pc' = [pc EXCEPT ![c] = "idle"]
    /\ arg' = [arg EXCEPT ![c] = <<>>]
    /\ UNCHANGED <<lockQ, running, flushTask, snap, nextId, nbatch>>
    /\ UNCHANGED <<cvars, xvars>>

\* ------------------------------------------------- CompositeSink
\* CompositeSink is a BaseSink (batch size 1) whose _send_batch_impl calls
\* send_batch on every child in turn. The loop body after the child's call ended
\* with `out`: a failed result under fail_fast raises inside the try, the except
\* branch logs and re-raises under fail_fast; otherwise the loop goes on.

\* a slip: an exception of a child leaves the loop in either mode
composite_after_child_propagate(out, ff) ==
    IF out = "raise" \/ (out = "fail" /\ ff) THEN "raise" ELSE "continue"

\* a slip: under fail_fast only an exception of a child aborts, not a failed result
composite_after_child_lenient(out, ff) ==
    IF out = "raise" /\ ff THEN "raise" ELSE "continue"

\* a slip: any failure of a child aborts the loop, whatever the mode
composite_after_child_strict(out, ff) ==
    IF out = "ok" THEN "continue" ELSE "raise"

\* the loop body of _send_batch_impl after the child's call ended with `out`
composite_after_child(out, ff) ==
    IF out = "ok" THEN "continue"
    ELSE IF ff THEN "raise" ELSE "continue"

\* an operation of the composite starts its batch write of `events`
CompositeWrite(op, events, buf) ==
    /\ cOp' = op
    /\ cEvents' = events
    /\ buffer' = buf
    /\ calls' = <<>>
    /\ cImpl' = "running"
    /\ UNCHANGED ret

\* an operation of the composite returns `r` without a batch write
CompositeNoWrite(r, buf) ==
    /\ ret' = r
    /\ buffer' = buf
    /\ cEvents' = <<>>
    /\ calls' = <<>>
    /\ cImpl' = "none"
    /\ UNCHANGED cOp

\* CompositeSink.send (BaseSink.send with the composite's batch size)
CSend ==
    /\ cOp = "none"
    /\ nextId <= MaxEvents
    /\ nextId' = nextId + 1
    /\ LET b == Append(buffer, nextId) IN
        IF Len(b) >= composite_batch_size
        THEN CompositeWrite("send", b, <<>>)
        ELSE CompositeNoWrite(BoolRet("send", TRUE), b)
    /\ UNCHANGED <<lockQ, running, flushTask, pc, arg, writes, snap, failed, plain,
                   nbatch, fail_fast>>
    /\ UNCHANGED xvars

\* CompositeSink.flush (BaseSink.flush)
CFlush ==
    /\ cOp = "none"
    /\ IF buffer = <<>>
       THEN CompositeNoWrite(SinkResult("flush", TRUE, 0), buffer)
       ELSE CompositeWrite("flush", buffer, <<>>)
    /\ UNCHANGED <<lockQ, running, flushTask, pc, arg, writes, snap, nextId, failed,
                   plain, nbatch, fail_fast>>
    /\ UNCHANGED xvars

\* CompositeSink.send_batch (BaseSink.send_batch)
CSendBatch(events) ==
    /\ cOp = "none"
    /\ CompositeWrite("send_batch", events, buffer)
    /\ UNCHANGED <<lockQ, running, flushTask, pc, arg, writes, snap, nextId, failed,
                   plain, nbatch, fail_fast>>
    /\ UNCHANGED xvars

\* one turn of the loop of _send_batch_impl: the next child's send_batch ends with
\* `out`; when the loop ends or raises, the calling operation returns
CChild(out) ==
    /\ cImpl = "running"
    /\ Len(calls) < NumChildren
    /\ LET i == Len(calls) + 1
           step == composite_after_child(out, fail_fast)
           end == IF step = "raise" THEN "exc"
                  ELSE IF i = NumChildren THEN "ok" ELSE "more"
           r == IF cOp = "send_batch" THEN send_batch(end, cEvents, buffer)
                ELSE flush_internal(end, cEvents, buffer)
       IN
        /\ calls' = Append(calls, [child |-> i, events |-> cEvents, outcome |-> out])
        /\ IF end = "more"
           THEN UNCHANGED <<buffer, ret, cOp, cImpl>>
           ELSE /\ cImpl' = IF end = "exc" THEN "raised" ELSE "returned"
                /\ buffer' = r.buffer
                /\ ret' = IF r.kind = "raise" THEN Raised(cOp)
                          ELSE SinkResult(cOp, r.success, r.sent)
                /\ cOp' = "none"
    /\ UNCHANGED <<lockQ, running, flushTask, pc, arg, writes, snap, nextId, failed,
                   plain, nbatch, fail_fast, cEvents>>
    /\ UNCHANGED xvars

\* ------------------------------------------------- specifications
\* a started or stopped sink used by concurrent callers: start, send, flush, stop
\* and the periodic tasks, with destination writes that may raise
Next ==
    \/ \E t \in Tasks : TaskRun(t)
    \/ \E t \in Tasks : TaskWake(t)
    \/ \E t \in Tasks : TaskAcquire(t)
    \/ \E t \in Tasks, o \in Outcomes : TaskWriteDone(t, o)
    \/ \E c \in Callers : Start(c)
    \/ \E c \in Callers : SendCall(c)
    \/ \E c \in Callers : SendAcquire(c)
    \/ \E c \in Callers : FlushCall(c)
    \/ \E c \in Callers : FlushAcquire(c)
    \/ \E c \in Callers, o \in Outcomes : CallerWriteDone(c, o)
    \/ \E c \in Callers : StopCall(c)
    \/ \E c \in Callers : StopResume(c)

Spec == Init /\ [][Next]_vars

\* send(), flush() and send_batch() by concurrent callers, writes may raise
NextBatch ==
    \/ \E c \in Callers : SendCall(c)
    \/ \E c \in Callers : SendAcquire(c)
    \/ \E c \in Callers : FlushCall(c)
    \/ \E c \in Callers : FlushAcquire(c)
    \/ \E c \in Callers, o \in Outcomes : CallerWriteDone(c, o)
    \/ \E c \in Callers, b \in BatchInputs : SendBatchCall(c, b)
    \/ \E c \in Callers, o \in Outcomes : SendBatchDone(c, o)

SpecBatch == Init /\ [][NextBatch]_vars

\* a composite sink in either mode, used by one caller: send, flush, send_batch
InitComposite == InitSink /\ fail_fast \in BOOLEAN

NextComposite ==
    \/ CSend
    \/ CFlush
    \/ \E b \in BatchInputs : CSendBatch(b)
    \/ \E o \in ChildOutcomes : CChild(o)

SpecComposite == InitComposite /\ [][NextComposite]_vars

\* ------------------------------------------------- properties
\* a caller's stop() returns in this step
StopReturns(c) == pc[c] \in StopPcs /\ pc'[c] = "idle"

\* C1: when the destination writes succeed, stop() loses no event: at the moment
\* stop() returns, every event whose send() had returned before stop() was called
\* has been passed to a destination write that completed, and the buffer is empty.
C1_StopLosesNoEvent ==
    [][\A c \in Callers :
        (StopReturns(c) /\ ~failed') =>
            (snap[c] \subseteq Delivered' /\ buffer' = <<>>)]_vars

\* C4: at-least-once delivery: an event leaves the buffer for good only through a
\* write that succeeded, so every event accepted by send() is in the buffer, in a
\* destination write in progress, or in a destination write that succeeded.
C4_NoAcceptedEventLost ==
    Accepted \subseteq (Range(buffer) \cup InFlight \cup Delivered)

\* C10: start() is idempotent: however often start() is called, exactly one
\* periodic flush task is running while the sink runs, and none once stop() has
\* cancelled it.
C10_OneFlushTask ==
    Cardinality(LiveTasks) = IF running THEN 1 ELSE 0

\* the destination write of a flush by coroutine p raises in this step
FlushPcs == {"writing", "send_write", "flush_write", "stop_write"}
FlushFails(p) ==
    /\ pc[p] \in FlushPcs
    /\ pc'[p] \notin FlushPcs \cup {"cancelled"}
    /\ writes' = writes

\* C2: when the destination write of a flush (of flush(), of the periodic task, of
\* send() or of stop()) raises, the buffer afterwards holds exactly the events of
\* the failed batch in their order (nothing was appended since the drain, and
\* whatever is appended later goes behind them).
C2_FailedBatchRequeued ==
    [][\A p \in Procs : FlushFails(p) => buffer' = arg[p]]_vars

\* a failed size-triggered flush of send() left its batch in the buffer
C2_Witness ==
    /\ failed
    /\ ret = SinkResult("send", FALSE, 0)
    /\ buffer = <<1, 2>>

\* the k-th complete batch of events in submission order
Chunk(k) == [i \in 1..batch_size |-> (k - 1) * batch_size + i]

\* C3: with only send() calls and no destination failure, the k-th destination
\* write holds the k-th batch_size consecutive events in submission order, and once
\* every send() has returned the number of writes is the number of complete
\* batches and the buffer holds the incomplete rest (nothing after k*batch_size
\* sends).
C3_OneFlushPerBatch ==
    plain =>
        /\ \A k \in 1..Len(writes) : writes[k] = Chunk(k)
        /\ (\A c \in Callers : pc[c] = "idle") =>
            /\ Len(writes) = (nextId - 1) \div batch_size
            /\ buffer = [i \in 1..((nextId - 1) % batch_size) |->
                            Len(writes) * batch_size + i]

\* two complete batches were sent and written
C3_Witness ==
    /\ plain
    /\ Len(writes) = 2
    /\ buffer = <<>>
    /\ \A c \in Callers : pc[c] = "idle"

\* C5: a destination-write exception does not leave flush() or the periodic task:
\* no caller sees a raised error, flush() returns SinkResult(success=False,
\* events_sent=0), the periodic task goes back to its loop (asleep while the sink
\* runs), and a task whose sleep ends with a non-empty buffer attempts a flush.
C5_FailureContained ==
    [][/\ \A c \in Callers : FlushFails(c) =>
            /\ ret'.kind # "raise"
            /\ pc[c] = "flush_write" => ret' = SinkResult("flush", FALSE, 0)
       /\ \A t \in Tasks : FlushFails(t) =>
            pc'[t] = IF running THEN "sleep" ELSE "done"
       /\ \A t \in Tasks :
            (pc[t] = "sleep" /\ pc'[t] \notin {"sleep", "cancelled"} /\ buffer # <<>>)
                => pc'[t] \in {"writing", "lockwait"}]_vars

\* a failed flush() returned its result and a periodic task sleeps, the failed
\* batch waiting in the buffer
C5_Witness ==
    /\ failed
    /\ running
    /\ ret = SinkResult("flush", FALSE, 0)
    /\ buffer # <<>>
    /\ \E t \in Tasks : pc[t] = "sleep"

\* a caller's send_batch() starts or returns in this step
SendBatchStarts(c) == pc[c] = "idle" /\ pc'[c] = "sb_write"
SendBatchEnds(c) == pc[c] = "sb_write" /\ pc'[c] = "idle"

\* C9: send_batch(events) leaves the buffer as it is and makes one destination
\* write of exactly the given events: it returns success=True with
\* events_sent=len(events) when the write returned, and success=False with
\* events_sent=0 (nothing raised, nothing written, nothing buffered) when it raised.
C9_SendBatchBypassesBuffer ==
    [][\A c \in Callers :
        /\ SendBatchStarts(c) => buffer' = buffer
        /\ SendBatchEnds(c) =>
            /\ buffer' = buffer
            /\ \/ /\ writes' = Append(writes, arg[c])
                  /\ ret' = SinkResult("send_batch", TRUE, Len(arg[c]))
               \/ /\ writes' = writes
                  /\ ret' = SinkResult("send_batch", FALSE, 0)]_vars

\* a send_batch of two events failed while the buffer held an event
C9_Witness ==
    /\ ret = SinkResult("send_batch", FALSE, 0)
    /\ buffer = <<1>>
    /\ nbatch = 1
    /\ writes = <<>>

\* the child calls of the composite's batch write are the first children of the
\* list, in list order, each called once with the events of the write
CallsInOrder ==
    \A i \in 1..Len(calls) : calls[i].child = i /\ calls[i].events = cEvents

\* C6: in best-effort mode a composite batch write calls send_batch on every child
\* once, in list order, with the same events, whatever earlier children returned
\* or raised, and does not raise.
C6_BestEffortCallsAll ==
    ~fail_fast =>
        /\ CallsInOrder
        /\ cImpl # "raised"
        /\ ret.kind # "raise"
        /\ cImpl = "returned" => Len(calls) = NumChildren

\* a best-effort write went through all children although the first returned a
\* failed result and the second raised
C6_Witness ==
    /\ ~fail_fast
    /\ cImpl = "returned"
    /\ Len(calls) = NumChildren
    /\ calls[1].outcome = "fail"
    /\ calls[2].outcome = "raise"

\* C7: in fail-fast mode the composite batch write raises at the first child whose
\* send_batch returns success=False or raises: that child is the last one called,
\* every child before it was called once and succeeded, no later child is called.
C7_FailFastStopsAtFirstFailure ==
    fail_fast =>
        /\ CallsInOrder
        /\ \A i \in 1..(Len(calls) - 1) : calls[i].outcome = "ok"
        /\ (calls # <<>> /\ calls[Len(calls)].outcome # "ok") <=> cImpl = "raised"
        /\ cImpl = "returned" => Len(calls) = NumChildren

\* the second child returned a failed result: the write raised, the third child
\* was not called
C7_Witness ==
    /\ fail_fast
    /\ cImpl = "raised"
    /\ Len(calls) = 2
    /\ calls[2].outcome = "fail"

\* a caller-invoked send_batch() or flush() of the fail-fast composite has
\* returned and its batch write had raised
FailFastFailure ==
    /\ fail_fast
    /\ cOp = "none"
    /\ cImpl = "raised"
    /\ ret.op \in {"send_batch", "flush"}

C11_SendReturnsTrue == ret.op = "send" => ret = BoolRet("send", TRUE)

\* ------------------------------------------------- C12
\* C12: the buffer is bounded by the configuration: whatever the sends and the
\* destination failures, it never holds more than batch_size events.
C12_BufferBounded == Len(buffer) <= batch_size

\* ------------------------------------------------- EventHubSink._send_batch_impl
\* One run of _send_batch_impl is a writer. BaseSink.send_batch takes no lock, so
\* a run started by send_batch overlaps the run of a flush or of another
\* send_batch. A run is suspended in `await producer.create_batch()` and in
\* `await producer.send_batch(event_batch)`; the for loop between them is atomic.

\* the serialized size of the events at the positions in `batch`
RECURSIVE Weight(_, _)
Weight(events, batch) ==
    IF batch = <<>> THEN 0 ELSE events[Head(batch)] + Weight(events, Tail(batch))

\* event_batch.add(event_data) returns; it raises ValueError when the event does
\* not fit under the provider's size ceiling
add_fits(events, batch, i) == Weight(events, batch) + events[i] <= BatchCapacity

\* the for loop from the event at position i with `batch` as event_batch, up to
\* the first add that raises ValueError or to the end of the list
RECURSIVE add_loop(_, _, _)
add_loop(events, i, batch) ==
    IF i > Len(events) THEN [at |-> i, batch |-> batch, stop |-> "end"]
    ELSE IF add_fits(events, batch, i)
         THEN add_loop(events, i + 1, Append(batch, i))
         ELSE [at |-> i, batch |-> batch, stop |-> "full"]

\* `except Exception: self._producer = None; raise`
EHFail(w) ==
    /\ ad' = [ad EXCEPT !.producer = 0, !.raisedOn = raisedOn \cup {ew[w].h}]
    /\ ew' = [ew EXCEPT ![w] = IdleWriter]

\* the loop went on from position i with `batch` and reached r: the run issues
\* producer.send_batch for a rejected add or for the non-empty final batch, or
\* returns when the final batch is empty
EHAfterLoop(w, r) ==
    /\ UNCHANGED ad
    /\ ew' = [ew EXCEPT ![w] =
          IF r.stop = "end" /\ Len(r.batch) = 0
          THEN [@ EXCEPT !.pc = "done", !.idx = r.at, !.batch = r.batch]
          ELSE [@ EXCEPT !.pc = IF r.stop = "full" THEN "send_full" ELSE "send_last",
                         !.idx = r.at,
                         !.batch = r.batch,
                         !.sent = Append(@, [batch |-> r.batch, at |-> r.at,
                                             stale |-> ew[w].h \in raisedOn])]]

\* _send_batch_impl(events) is called with the library installed: _get_producer
\* returns self._producer, constructing it when it is None, and the run awaits
\* create_batch
EHCall(w, events) ==
    /\ ew[w].pc \in {"idle", "done"}
    /\ available
    /\ producer = 0 => nHandles < MaxHandles
    /\ LET h == IF producer = 0 THEN nHandles + 1 ELSE producer IN
        /\ ad' = [ad EXCEPT !.producer = h,
                            !.nHandles = IF producer = 0 THEN nHandles + 1 ELSE nHandles]
        /\ ew' = [ew EXCEPT ![w] = [pc |-> "create", h |-> h, events |-> events,
                                    idx |-> 1, batch |-> <<>>, sent |-> <<>>]]
    /\ UNCHANGED <<bvars, cvars, pvars, lvars, kvars>>

\* `await producer.create_batch()` ends: the first one is followed by the loop,
\* the one after an early send by `event_batch.add(event_data)` outside the inner
\* try and then by the rest of the loop
EHCreateDone(w, outcome) ==
    /\ ew[w].pc \in {"create", "create_after"}
    /\ IF outcome = "exc" THEN EHFail(w)
       ELSE IF ew[w].pc = "create"
            THEN EHAfterLoop(w, add_loop(ew[w].events, 1, <<>>))
       ELSE IF add_fits(ew[w].events, <<>>, ew[w].idx)
            THEN EHAfterLoop(w, add_loop(ew[w].events, ew[w].idx + 1, <<ew[w].idx>>))
            ELSE EHFail(w)
    /\ UNCHANGED <<bvars, cvars, pvars, lvars, kvars>>

\* `await producer.send_batch(event_batch)` ends
EHSendDone(w, outcome) ==
    /\ ew[w].pc \in {"send_full", "send_last"}
    /\ IF outcome = "exc" THEN EHFail(w)
       ELSE /\ ew' = [ew EXCEPT ![w].pc = IF ew[w].pc = "send_full" THEN "create_after"
                                          ELSE "done"]
            /\ UNCHANGED ad
    /\ UNCHANGED <<bvars, cvars, pvars, lvars, kvars>>

\* an EventHubSink with the library installed whose batch writes overlap
NextEventHub ==
    \/ \E w \in EHWriters, b \in EHInputs : EHCall(w, b)
    \/ \E w \in EHWriters, o \in Outcomes : EHCreateDone(w, o)
    \/ \E w \in EHWriters, o \in Outcomes : EHSendDone(w, o)

SpecEventHub == Init /\ [][NextEventHub]_vars

\* ------------------------------------------------- C14
\* C14: after an exception in a batch write of EventHubSink the producer handle
\* is discarded: the sink never keeps a handle on which a call raised, and no
\* provider send is issued on a handle on which an earlier call raised.
C14_NoSendOnFailedHandle ==
    /\ producer # 0 => producer \notin raisedOn
    /\ \A w \in EHWriters : \A k \in 1..Len(eSent[w]) : ~eSent[w][k].stale

\* ------------------------------------------------- C15
\* the physical batches a run sent, one after the other
RECURSIVE Concat(_)
Concat(sent) == IF sent = <<>> THEN <<>> ELSE Head(sent).batch \o Concat(Tail(sent))

\* C15: no physical batch handed to the provider is empty, a batch is sent before
\* the end of the input only when the add of the next event was rejected, and
\* when a run whose provider calls all succeeded is over, the physical batches
\* it sent are, concatenated, the input list.
C15_PhysicalBatches ==
    \A w \in EHWriters :
        /\ \A k \in 1..Len(eSent[w]) :
              /\ eSent[w][k].batch # <<>>
              /\ eSent[w][k].at <= Len(eIn[w]) =>
                    ~add_fits(eIn[w], eSent[w][k].batch, eSent[w][k].at)
        /\ epc[w] = "done" => Concat(eSent[w]) = [i \in 1..Len(eIn[w]) |-> i]

\* ------------------------------------------------- a missing client library
\* EventHubSink and OneLakeSink used by one caller. With the library missing
\* _get_producer / _get_client return None and _send_batch_impl returns at once.

\* a slip: the warning is logged but the flag is not set
get_producer_missing_relog(logged) == [handle |-> 0, warn |-> ~logged, logged |-> logged]

\* EventHubSink._get_producer when EVENTHUB_AVAILABLE is False
get_producer_missing(logged) == [handle |-> 0, warn |-> ~logged, logged |-> TRUE]

\* OneLakeSink._get_client when ONELAKE_AVAILABLE is False
get_client_missing(logged) == [handle |-> 0, warn |-> ~logged, logged |-> TRUE]

\* _send_batch_impl(events) of the adapter ends with `outcome`; with the library
\* missing it logs at most a warning, writes nothing and returns
AdapterImpl(outcome, events) ==
    IF available
    THEN /\ WriteEffect(outcome, events)
         /\ UNCHANGED ad
    ELSE LET g == IF sinkKind = "eventhub" THEN get_producer_missing(unavailable_logged)
                  ELSE get_client_missing(unavailable_logged) IN
         /\ ad' = [ad EXCEPT !.warnings = IF g.warn THEN warnings + 1 ELSE warnings,
                             !.unavailable_logged = g.logged,
                             !.dropped = Append(dropped, events)]
         /\ UNCHANGED <<writes, failed, plain>>

\* how the adapter's _send_batch_impl ends for its caller
ImplEnd(outcome) == IF available THEN outcome ELSE "ok"

\* nothing is written to the destination
AdapterNoWrite == UNCHANGED <<writes, failed, plain, ad>>

\* send(event) of the adapter
ASend(outcome) ==
    /\ nextId <= MaxEvents
    /\ nextId' = nextId + 1
    /\ LET b == Append(buffer, nextId) IN
        IF send_reaches_batch(Len(b))
        THEN LET r == flush_internal(ImplEnd(outcome), b, <<>>) IN
             /\ AdapterImpl(outcome, b)
             /\ buffer' = r.buffer
             /\ ret' = IF r.kind = "raise" THEN Raised("send")
                       ELSE SinkResult("send", r.success, r.sent)
        ELSE /\ buffer' = b
             /\ ret' = BoolRet("send", TRUE)
             /\ AdapterNoWrite
    /\ UNCHANGED <<lockQ, running, flushTask, pc, arg, snap, nbatch>>
    /\ UNCHANGED <<ew, cvars, pvars, lvars, kvars>>

\* flush() of the adapter
AFlush(outcome) ==
    /\ IF buffer = <<>>
       THEN /\ ret' = SinkResult("flush", TRUE, 0)
            /\ UNCHANGED buffer
            /\ AdapterNoWrite
       ELSE LET r == flush_internal(ImplEnd(outcome), buffer, <<>>) IN
            /\ AdapterImpl(outcome, buffer)
            /\ buffer' = r.buffer
            /\ ret' = IF r.kind = "raise" THEN Raised("flush")
                      ELSE SinkResult("flush", r.success, r.sent)
    /\ UNCHANGED <<lockQ, running, flushTask, pc, arg, snap, nextId, nbatch>>
    /\ UNCHANGED <<ew, cvars, pvars, lvars, kvars>>

\* send_batch(events) of the adapter
ASendBatch(events, outcome) ==
    /\ nbatch < MaxBatchCalls
    /\ nbatch' = nbatch + 1
    /\ AdapterImpl(outcome, events)
    /\ LET r == send_batch(ImplEnd(outcome), events, buffer) IN
        /\ buffer' = r.buffer
        /\ ret' = IF r.kind = "raise" THEN Raised("send_batch")
                  ELSE SinkResult("send_batch", r.success, r.sent)
    /\ UNCHANGED <<lockQ, running, flushTask, pc, arg, snap, nextId>>
    /\ UNCHANGED <<ew, cvars, pvars, lvars, kvars>>

\* either adapter, with its library installed or missing
InitUnavailable ==
    /\ InitCore /\ fail_fast = FALSE
    /\ \E k \in SinkKinds, a \in BOOLEAN : ad = NewAdapter(k, a)
    /\ WritersIdle /\ PartitionIdle /\ LifeIdle /\ ClientIdle

NextUnavailable ==
    \/ \E o \in Outcomes : ASend(o)
    \/ \E o \in Outcomes : AFlush(o)
    \/ \E b \in BatchInputs, o \in Outcomes : ASendBatch(b, o)

SpecUnavailable == InitUnavailable /\ [][NextUnavailable]_vars

\* ------------------------------------------------- C13
\* the events of the batches skipped for want of the library
Discarded == UNION {Range(dropped[i]) : i \in 1..Len(dropped)}

\* C13: with the client library missing, no call raises, flush() and send_batch()
\* report success, the flushed events leave the buffer and never come back,
\* nothing reaches the destination, and the warning is logged at most once.
C13_UnavailableDegradesToNoOp ==
    ~available =>
        /\ ret.kind # "raise"
        /\ ret.op \in {"flush", "send_batch"} => ret.kind = "result" /\ ret.success
        /\ ret.op = "flush" => buffer = <<>>
        /\ Discarded \cap Range(buffer) = {}
        /\ writes = <<>>
        /\ warnings <= 1

\* two batches were skipped, the last of them by a flush()
C13_Witness ==
    /\ ~available
    /\ Len(dropped) >= 2
    /\ ret = SinkResult("flush", TRUE, Len(Last(dropped)))
    /\ warnings = 1

\* ------------------------------------------------- OneLakeSink and FileSink
\* A path is the sequence of its segments, a segment a sequence of characters
\* and digits; the configured base path is the one segment <<"base">>.

\* str.replace(".", "_")
replace_dots(t) == [i \in 1..Len(t) |-> IF t[i] = "." THEN "_" ELSE t[i]]

\* f"{n}": the decimal digits of n
RECURSIVE Digits(_)
Digits(n) == IF n < 10 THEN <<n>> ELSE Digits(n \div 10) \o <<n % 10>>

\* f"{n:02d}": the digits of n, zero-padded to a width of two
format_02d(n) == IF Len(Digits(n)) < 2 THEN <<0>> \o Digits(n) ELSE Digits(n)

\* OneLakeSink._get_partition_path
get_partition_path(event_type, now) ==
    << <<"base">>, event_type,
       <<"year=">> \o Digits(now.year),
       <<"month=">> \o format_02d(now.month),
       <<"day=">> \o format_02d(now.day) >>

\* FileSink._get_output_path
get_output_path(event_type, now, by_type, by_date) ==
    << <<"base">> >>
    \o (IF by_type THEN <<replace_dots(event_type)>> ELSE <<>>)
    \o (IF by_date THEN <<Digits(now.year), format_02d(now.month), format_02d(now.day)>>
        ELSE <<>>)

\* the keys of a dict filled in the order of `keys`: each key once, by first use
RECURSIVE dict_keys(_, _)
dict_keys(keys, acc) ==
    IF keys = <<>> THEN acc
    ELSE dict_keys(Tail(keys), IF Head(keys) \in Range(acc) THEN acc
                               ELSE Append(acc, Head(keys)))

\* events_by_type: for each key in dict order, the positions of its events
events_by_type(keys) ==
    LET order == dict_keys(keys, <<>>) IN
    [j \in 1..Len(order) |->
        [key |-> order[j],
         events |-> SelectSeq([i \in 1..Len(keys) |-> i], LAMBDA i : keys[i] = order[j])]]

\* OneLakeSink._send_batch_impl with every upload succeeding: the group key is
\* the event type with its dots replaced
\* OneLakeSink._get_client with the library installed: `if self._client is None`
\* constructs the client, else the one kept is returned
get_client(client, made) ==
    IF client = 0 THEN [handle |-> made + 1, made |-> made + 1]
    ELSE [handle |-> client, made |-> made]

\* OneLakeSink._send_batch_impl: the client from _get_client, `async with client:`
\* around the uploads, which closes the client when it is left; self._client
\* keeps the handle.  `onClosed` is how the provider treats a call on a closed
\* handle: it raises, or it serves the call
OneLakeWrite(batch, now, onClosed) ==
    /\ pKind = "onelake"
    /\ LET groups == events_by_type([i \in 1..Len(batch) |-> replace_dots(batch[i])])
           g == get_client(olClient, olMade)
           open == g.handle \notin olClosed
           written == open \/ onClosed = "ok"
       IN
        pt' = [pt EXCEPT
                 !.client = g.handle,
                 !.made = g.made,
                 !.use = [handle |-> g.handle, open |-> open],
                 !.closed = olClosed \cup {g.handle},
                 !.batch = IF written THEN batch ELSE @,
                 !.date = IF written THEN now ELSE @,
                 !.files = IF written
                           THEN [j \in 1..Len(groups) |->
                                   [dir |-> get_partition_path(groups[j].key, now),
                                    name |-> j, events |-> groups[j].events]]
                           ELSE @]
    /\ UNCHANGED <<bvars, cvars, avars, lvars, kvars>>

\* FileSink._send_batch_impl: the group key is the event type as it is
FileWrite(batch, now) ==
    /\ pKind = "file"
    /\ LET groups == events_by_type(batch) IN
        pt' = [pt EXCEPT
                 !.batch = batch,
                 !.date = now,
                 !.files = [j \in 1..Len(groups) |->
                              [dir |-> get_output_path(groups[j].key, now,
                                                       partition_by_type, partition_by_date),
                               name |-> j, events |-> groups[j].events]]]
    /\ UNCHANGED <<bvars, cvars, avars, lvars, kvars>>

\* a OneLakeSink, or a FileSink with any partitioning settings
InitPartition ==
    /\ InitCore /\ fail_fast = FALSE
    /\ AdapterIdle /\ LifeIdle /\ ClientIdle
    /\ \/ pt = NewPartition("onelake", TRUE, TRUE)
       \/ \E t \in BOOLEAN, d \in BOOLEAN : pt = NewPartition("file", t, d)

NextPartition ==
    \/ \E b \in TypedBatches, d \in Dates, o \in Outcomes : OneLakeWrite(b, d, o)
    \/ \E b \in TypedBatches, d \in Dates : FileWrite(b, d)

SpecPartition == InitPartition /\ [][NextPartition]_vars

\* ------------------------------------------------- ConsoleSink
LF == "LF"                                   \* the line feed character
Chars == {"a", "\"", LF}                     \* characters of an event's value

RECURSIVE StringsUpTo(_)
StringsUpTo(n) ==
    IF n = 0 THEN {<<>>}
    ELSE LET shorter == StringsUpTo(n - 1) IN
         shorter \cup {Append(v, c) : v \in shorter, c \in Chars}

\* an event {"data": v}, given by v
ConsoleEvents == StringsUpTo(MaxValueLen)
ConsoleBatches ==
    UNION {[1..n -> ConsoleEvents] : n \in 1..MaxConsoleBatch}

\* a slip: the characters of a string go to the output as they are
json_escape_raw(c) == <<c>>

\* json.dumps of one character of a string
json_escape(c) ==
    IF c = LF THEN <<"\\", "n">>
    ELSE IF c = "\"" THEN <<"\\", "\"">>
    ELSE <<c>>

RECURSIVE json_string(_)
json_string(v) ==
    IF v = <<>> THEN <<>> ELSE json_escape(Head(v)) \o json_string(Tail(v))

\* json.dumps(event, default=str)
json_dumps(v) == <<"{", "\"data\"", ":", " ", "\"">> \o json_string(v) \o <<"\"", "}">>

\* json.dumps(event, indent=2, default=str)
json_dumps_indent(v) ==
    <<"{", LF, " ", " ", "\"data\"", ":", " ", "\"">> \o json_string(v)
        \o <<"\"", LF, "}">>

\* print(x): x and a line feed
print(x) == x \o <<LF>>

\* the body of the loop of ConsoleSink._send_batch_impl
console_event(pretty, v) ==
    IF pretty
    THEN print(<<LF, "rule">>) \o print(<<"type">>) \o print(<<"source">>)
            \o print(<<"time">>) \o print(<<"id">>) \o print(<<"rule">>)
            \o print(json_dumps_indent(v))
    ELSE print(json_dumps(v))

RECURSIVE console_batch(_, _)
console_batch(pretty, events) ==
    IF events = <<>> THEN <<>>
    ELSE console_event(pretty, Head(events)) \o console_batch(pretty, Tail(events))

\* ConsoleSink._send_batch_impl on the batch it was given
ConsoleWrite ==
    /\ pKind = "console"
    /\ stdout = <<>>
    /\ pt' = [pt EXCEPT !.out = console_batch(pretty_print, pBatch)]
    /\ UNCHANGED <<bvars, cvars, avars, lvars, kvars>>

\* a console sink with either setting of pretty_print and the batch it is to write
InitConsole ==
    /\ InitCore /\ fail_fast = FALSE
    /\ AdapterIdle /\ LifeIdle /\ ClientIdle
    /\ \E p \in BOOLEAN, b \in ConsoleBatches :
            pt = [NewPartition("console", FALSE, FALSE) EXCEPT !.pretty = p, !.batch = b]

NextConsole == ConsoleWrite

SpecConsole == InitConsole /\ [][NextConsole]_vars

\* ------------------------------------------------- C16
\* C16: a batch write makes one file per distinct event type of the batch, every
\* event is in exactly one file, a file holds events of one type only, and the
\* events of a file are in batch order.
C16_OneFilePerType ==
    /\ Len(pFiles) = Cardinality(Range(pBatch))
    /\ \A i \in 1..Len(pBatch) :
          Cardinality({j \in 1..Len(pFiles) : i \in Range(pFiles[j].events)}) = 1
    /\ \A j \in 1..Len(pFiles) :
          LET ev == pFiles[j].events IN
          /\ \A x, y \in 1..Len(ev) : pBatch[ev[x]] = pBatch[ev[y]]
          /\ \A x, y \in 1..Len(ev) : x < y => ev[x] < ev[y]

\* ------------------------------------------------- C17
\* {base}/{type with '.' as '_'}/year={YYYY}/month={MM}/day={DD}
PartitionDir(t, d) ==
    << <<"base">>,
       [i \in 1..Len(t) |-> IF t[i] = "." THEN "_" ELSE t[i]],
       <<"year=", d.year \div 1000, (d.year \div 100) % 10, (d.year \div 10) % 10,
         d.year % 10>>,
       <<"month=", d.month \div 10, d.month % 10>>,
       <<"day=", d.day \div 10, d.day % 10>> >>

\* C17: with type and date partitioning on, every file of a write by OneLakeSink
\* or FileSink is in the directory {base}/{type}/year=YYYY/month=MM/day=DD of
\* its events' type and of the UTC date of the write.
C17_PartitionDirectory ==
    partition_by_type /\ partition_by_date =>
        \A j \in 1..Len(pFiles) :
            pFiles[j].dir = PartitionDir(pBatch[pFiles[j].events[1]], pDate)

\* ------------------------------------------------- CompositeSink.start / stop
\* The composite used by one caller. Its own periodic task is the one of
\* BaseSink (see Spec); here start() and stop() only set and clear _running.

\* the calls start() makes on the children: `for sink in self.sinks: await sink.start()`
composite_start(n) == [i \in 1..n |-> [call |-> "start", child |-> i]]

\* a slip: the children are stopped before the composite's own stop
composite_stop_children_first(flushed, n) ==
    [i \in 1..n |-> [call |-> "stop", child |-> i]] \o flushed

\* the calls stop() makes on the children: `await super().stop()`, whose final
\* flush made the calls `flushed`, then `for sink in self.sinks: await sink.stop()`
composite_stop(flushed, n) ==
    flushed \o [i \in 1..n |-> [call |-> "stop", child |-> i]]

\* the child send_batch calls of the write in progress, as log entries
FlushedCalls(cs) == [k \in 1..Len(cs) |-> [call |-> "send_batch", child |-> cs[k].child]]

\* CompositeSink.start
LStart ==
    /\ cOp = "none"
    /\ lf' = [op |-> "start", log |-> composite_start(NumChildren)]
    /\ running' = TRUE
    /\ flushTask' = 1
    /\ ret' = VoidRet("start")
    /\ UNCHANGED <<buffer, lockQ, pc, arg, writes, snap, nextId, failed, plain, nbatch>>
    /\ UNCHANGED <<cvars, avars, pvars, kvars>>

\* CompositeSink.stop is called: BaseSink.stop clears _running and flushes; with
\* an empty buffer the flush makes no call and the children are stopped at once
LStopCall ==
    /\ cOp = "none"
    /\ running' = FALSE
    /\ IF buffer = <<>>
       THEN /\ lf' = [op |-> "stop", log |-> composite_stop(<<>>, NumChildren)]
            /\ ret' = VoidRet("stop")
            /\ UNCHANGED <<buffer, cOp, cEvents, calls, cImpl>>
       ELSE /\ lf' = [op |-> "stop", log |-> <<>>]
            /\ CompositeWrite("stop", buffer, <<>>)
    /\ UNCHANGED <<lockQ, flushTask, pc, arg, writes, snap, nextId, failed, plain,
                   nbatch, fail_fast>>
    /\ UNCHANGED <<avars, pvars, kvars>>

\* one turn of the loop of _send_batch_impl inside the final flush of stop(); when
\* the flush is over, stop() goes on to stop the children and returns
LStopChild(out) ==
    /\ cOp = "stop"
    /\ cImpl = "running"
    /\ Len(calls) < NumChildren
    /\ LET i == Len(calls) + 1
           step == composite_after_child(out, fail_fast)
           end == IF step = "raise" THEN "exc"
                  ELSE IF i = NumChildren THEN "ok" ELSE "more"
           r == flush_internal(end, cEvents, buffer)
           cs == Append(calls, [child |-> i, events |-> cEvents, outcome |-> out])
       IN
        /\ calls' = cs
        /\ IF end = "more"
           THEN UNCHANGED <<buffer, ret, cOp, cImpl, lf>>
           ELSE /\ cImpl' = IF end = "exc" THEN "raised" ELSE "returned"
                /\ buffer' = r.buffer
                /\ ret' = IF r.kind = "raise" THEN Raised("stop") ELSE VoidRet("stop")
                /\ cOp' = "none"
                /\ lf' = [lf EXCEPT !.log = composite_stop(FlushedCalls(cs), NumChildren)]
    /\ UNCHANGED <<lockQ, running, flushTask, pc, arg, writes, snap, nextId, failed,
                   plain, nbatch, fail_fast, cEvents>>
    /\ UNCHANGED <<avars, pvars, kvars>>

\* a composite sink in either mode, used by one caller: start, send, flush,
\* send_batch, stop
NextCompositeLife ==
    \/ LStart
    \/ LStopCall
    \/ \E o \in ChildOutcomes : LStopChild(o)
    \/ CSend
    \/ CFlush
    \/ \E b \in BatchInputs : CSendBatch(b)
    \/ \E o \in ChildOutcomes : cOp # "stop" /\ CChild(o)

SpecCompositeLife == InitComposite /\ [][NextCompositeLife]_vars

\* ------------------------------------------------- C18
\* the positions of the log where `call` is made on child i
CallsOn(call, i) == {k \in 1..Len(lLog) : lLog[k] = [call |-> call, child |-> i]}

\* C18: a start() of the composite starts every child exactly once and makes no
\* other call; a stop() that returned stopped every child exactly once, and all
\* the child send_batch calls of its final flush come before the first stop of
\* a child.
C18_LifecycleReachesEveryChild ==
    /\ lOp = "start" =>
          /\ \A i \in Children : Cardinality(CallsOn("start", i)) = 1
          /\ Len(lLog) = NumChildren
    /\ lOp = "stop" /\ cOp = "none" =>
          /\ \A i \in Children : Cardinality(CallsOn("stop", i)) = 1
          /\ \A k \in 1..Len(lLog) : lLog[k].call \in {"send_batch", "stop"}
          /\ \A j, k \in 1..Len(lLog) :
                lLog[j].call = "send_batch" /\ lLog[k].call = "stop" => j < k

\* a stop() returned whose final flush called a child
C18_Witness ==
    /\ lOp = "stop" /\ cOp = "none"
    /\ \E k \in 1..Len(lLog) : lLog[k].call = "send_batch"
    /\ \A i \in Children : CallsOn("stop", i) # {}

\* ------------------------------------------------- BusinessTelemetryClient
\* The client over a sink used by one caller; the sink's destination library may
\* be missing and its writes may raise.

\* a slip: start() looks at _started only
client_start_runs_unguarded(en, st) == ~st

\* a slip: start() does not look at self._started
client_start_runs_restart(en, st) == en

\* start(): `if not self.enabled: return`, `if self._started: return`
client_start_runs(en, st) == en /\ ~st

\* how the destination write of a client call ended
WriteEnd(outcome) == IF available THEN outcome ELSE "skipped"

\* a client call that returns r without touching the sink
ClientReturns(r) ==
    /\ ret' = r
    /\ kl' = [kl EXCEPT !.write = "none"]
    /\ UNCHANGED <<buffer, running, flushTask, writes, failed, plain, nextId, nbatch, ad>>

\* a start() or stop() of the client that returns before it calls the sink
ClientSkips(op) ==
    /\ ret' = VoidRet(op)
    /\ kl' = [kl EXCEPT !.write = "none", !.skipped = TRUE]
    /\ UNCHANGED <<buffer, running, flushTask, writes, failed, plain, nextId, nbatch, ad>>

\* BusinessTelemetryClient.start
KStart ==
    /\ IF client_start_runs(enabled, started)
       THEN /\ Len(sinkLife) < MaxLifeCalls
            /\ running' = TRUE
            /\ flushTask' = 1
            /\ kl' = [kl EXCEPT !.started = TRUE,
                                !.sinkCalls = sinkCalls \cup {"start"},
                                !.write = "none",
                                !.life = Append(sinkLife, "start"),
                                !.skipped = FALSE]
            /\ ret' = VoidRet("client.start")
            /\ UNCHANGED <<buffer, writes, failed, plain, nextId, nbatch, ad>>
       ELSE ClientSkips("client.start")
    /\ UNCHANGED <<lockQ, pc, arg, snap>>
    /\ UNCHANGED <<ew, cvars, pvars, lvars>>

\* BusinessTelemetryClient.stop: `if not self._started: return`, else sink.stop()
\* with its final flush
KStop(outcome) ==
    /\ IF started
       THEN /\ Len(sinkLife) < MaxLifeCalls
            /\ running' = FALSE
            /\ ret' = VoidRet("client.stop")
            /\ kl' = [kl EXCEPT !.started = FALSE,
                                !.sinkCalls = sinkCalls \cup {"stop"},
                                !.write = IF buffer = <<>> THEN "none"
                                          ELSE WriteEnd(outcome),
                                !.life = Append(sinkLife, "stop"),
                                !.skipped = FALSE]
            /\ IF buffer = <<>>
               THEN /\ UNCHANGED buffer
                    /\ AdapterNoWrite
               ELSE /\ AdapterImpl(outcome, buffer)
                    /\ buffer' = flush_internal(ImplEnd(outcome), buffer, <<>>).buffer
            /\ UNCHANGED <<flushTask, nextId, nbatch>>
       ELSE ClientSkips("client.stop")
    /\ UNCHANGED <<lockQ, pc, arg, snap>>
    /\ UNCHANGED <<ew, cvars, pvars, lvars>>

\* emit() of a client whose own fields are k: `if not self.enabled: return False`,
\* else `return await self.sink.send(...)`
KSend(k, outcome) ==
    /\ IF ~k.enabled
       THEN /\ ret' = BoolRet("emit", FALSE)
            /\ kl' = [k EXCEPT !.write = "none"]
            /\ UNCHANGED <<buffer, running, flushTask, writes, failed, plain, nextId,
                           nbatch, ad>>
       ELSE /\ nextId <= MaxEvents
            /\ nextId' = nextId + 1
            /\ LET b == Append(buffer, nextId) IN
                IF send_reaches_batch(Len(b))
                THEN LET r == flush_internal(ImplEnd(outcome), b, <<>>) IN
                     /\ AdapterImpl(outcome, b)
                     /\ kl' = [k EXCEPT !.sinkCalls = k.sinkCalls \cup {"send"},
                                        !.write = WriteEnd(outcome)]
                     /\ buffer' = r.buffer
                     /\ ret' = IF r.kind = "raise" THEN Raised("emit")
                               ELSE SinkResult("emit", r.success, r.sent)
                ELSE /\ buffer' = b
                     /\ ret' = BoolRet("emit", TRUE)
                     /\ kl' = [k EXCEPT !.sinkCalls = k.sinkCalls \cup {"send"},
                                        !.write = "none"]
                     /\ AdapterNoWrite
            /\ UNCHANGED <<running, flushTask, nbatch>>
    /\ UNCHANGED <<lockQ, pc, arg, snap>>
    /\ UNCHANGED <<ew, cvars, pvars, lvars>>

\* BusinessTelemetryClient.emit: `return await self.sink.send(event.to_dict())`
KEmit(outcome) == KSend(kl, outcome)

\* BusinessTelemetryClient.emit_batch: `result = await self.sink.send_batch(enriched)`,
\* `return result.success`
KEmitBatch(events, outcome) ==
    /\ IF ~enabled THEN ClientReturns(BoolRet("emit_batch", FALSE))
       ELSE /\ nbatch < MaxBatchCalls
            /\ nbatch' = nbatch + 1
            /\ AdapterImpl(outcome, events)
            /\ kl' = [kl EXCEPT !.sinkCalls = sinkCalls \cup {"send_batch"},
                                !.write = WriteEnd(outcome)]
            /\ LET r == send_batch(ImplEnd(outcome), events, buffer) IN
                /\ buffer' = r.buffer
                /\ ret' = IF r.kind = "raise" THEN Raised("emit_batch")
                          ELSE BoolRet("emit_batch", r.success)
            /\ UNCHANGED <<running, flushTask, nextId>>
    /\ UNCHANGED <<lockQ, pc, arg, snap>>
    /\ UNCHANGED <<ew, cvars, pvars, lvars>>

\* a client constructed enabled or disabled, over a sink whose library is
\* installed or missing
InitClient ==
    /\ InitCore /\ fail_fast = FALSE
    /\ \E a \in BOOLEAN : ad = NewAdapter("eventhub", a)
    /\ WritersIdle /\ PartitionIdle /\ LifeIdle
    /\ \E en \in BOOLEAN : kl = NewClient(en)

NextClient ==
    \/ KStart
    \/ \E o \in Outcomes : KStop(o)
    \/ \E o \in Outcomes : KEmit(o)
    \/ \E b \in BatchInputs, o \in Outcomes : KEmitBatch(b, o)

SpecClient == InitClient /\ [][NextClient]_vars

\* ------------------------------------------------- BusinessTelemetryClient context
\* values an optional string may take: None, the empty string, a value
Truthy(v) == v \notin {Nil, ""}

\* a slip: the context wins over the event's own value
fill_overwrite(own, ctx) == IF Truthy(ctx) THEN ctx ELSE own

\* `if not event.f and self._f: event.f = self._f`
fill(own, ctx) == IF ~Truthy(own) /\ Truthy(ctx) THEN ctx ELSE own

\* _enrich_event on the fields of the context and of the constructor (the customer
\* and infrastructure fields are filled by the same pattern as session_id)
enrich_event(event, k) ==
    [event EXCEPT !.session_id = fill(@, k.ctx.session_id),
                  !.user_id = fill(@, k.ctx.user_id),
                  !.correlation_id = fill(@, k.ctx.correlation_id),
                  !.event_source = fill(@, k.source),
                  !.environment = k.environment,
                  !.service_version = k.service_version]

\* set_context: an argument that is None leaves its field alone
set_context(ctx, sid, uid, cid) ==
    [session_id |-> IF sid # Nil THEN sid ELSE ctx.session_id,
     user_id |-> IF uid # Nil THEN uid ELSE ctx.user_id,
     correlation_id |-> IF cid # Nil THEN cid ELSE ctx.correlation_id]

\* clear_context
clear_context == NoContext

\* emit(event) of a client whose own fields are k: enrich, then sink.send(to_dict)
EmitEvent(k, event, outcome) ==
    LET d == to_dict(enrich_event(event, k)) IN
    KSend(IF k.enabled
          THEN [k EXCEPT !.last = [some |-> TRUE, given |-> event, ctx |-> k.ctx,
                                   dict |-> d],
                         !.sends = Append(@, d.event_type)]
          ELSE k,
          outcome)

\* a call of the client that does not reach the sink
ClientOnly(k) ==
    /\ kl' = k
    /\ UNCHANGED <<bvars, cvars, ad, ew, pvars, lvars>>

KSetContext(sid, uid, cid) ==
    ClientOnly([kl EXCEPT !.ctx = set_context(context, sid, uid, cid)])

KClearContext == ClientOnly([kl EXCEPT !.ctx = clear_context])

KEmitEvent(event, outcome) == EmitEvent(kl, event, outcome)

OwnValues == {Nil, "", "own"}                \* what an event carries in a field
SessionIds == {"sess-1"}
UserIds == {Nil, "user-1"}
CorrelationIds == {Nil, "corr-1"}
Sources == {Nil, "customer-agent"}           \* default_source
GivenEvents ==
    {Event("product.viewed", src, cid, sid, uid) :
        src \in {"", "own"}, cid \in {Nil, "own"}, sid \in OwnValues,
        uid \in {Nil, "own"}}

\* an enabled, started client with or without a default source
InitEnrich ==
    /\ InitCore /\ fail_fast = FALSE
    /\ ad = NewAdapter("eventhub", TRUE)
    /\ WritersIdle /\ PartitionIdle /\ LifeIdle
    /\ \E src \in Sources : kl = NewClientOf(TRUE, src, "test", "2.0.0")

NextEnrich ==
    \/ \E sid \in SessionIds \cup {Nil}, uid \in UserIds, cid \in CorrelationIds :
            KSetContext(sid, uid, cid)
    \/ KClearContext
    \/ \E e \in GivenEvents, o \in Outcomes : KEmitEvent(e, o)

SpecEnrich == InitEnrich /\ [][NextEnrich]_vars

\* ------------------------------------------------- session_context
session_started_event(sid, uid) == Event("customer.session_started", "", Nil, sid, uid)
session_ended_event(sid, uid) == Event("customer.session_ended", "", Nil, sid, uid)

\* a slip: the code after the yield runs only when the body returns
session_cleanup_on_return(raised) == ~raised

\* `try: yield self  finally: ...`: the exit code runs however the body ended
session_cleanup(raised) == TRUE

\* entering `async with client.session_context(sid, uid, emit_session_events)`
SessionEnter(sid, uid, emits, outcome) ==
    /\ session.pc \in {"none", "out"}
    /\ LET k == [kl EXCEPT !.ctx = set_context(context, sid, uid, Nil),
                           !.ses = [pc |-> "body", emits |-> emits,
                                    base |-> Len(sends), k |-> 0,
                                    raised |-> FALSE, sid |-> sid, uid |-> uid]]
       IN IF emits THEN EmitEvent(k, session_started_event(sid, uid), outcome)
          ELSE ClientOnly(k)

\* an emit in the body of the `async with`
SessionEmit(event, outcome) ==
    /\ session.pc = "body"
    /\ session.k < MaxBodyEmits
    /\ enabled /\ session.emits => nextId < MaxEvents
    /\ EmitEvent([kl EXCEPT !.ses.k = @ + 1], event, outcome)

\* the body returns or raises: the code after the yield
SessionExit(raised, outcome) ==
    /\ session.pc = "body"
    /\ LET left == [kl EXCEPT !.ses.pc = "out", !.ses.raised = raised] IN
       IF session_cleanup(raised)
       THEN LET k == [left EXCEPT !.ctx = clear_context] IN
            IF session.emits
            THEN \* the event is enriched before clear_context runs
                 LET e == to_dict(enrich_event(
                              session_ended_event(session.sid, session.uid), kl))
                 IN KSend(IF enabled
                          THEN [k EXCEPT !.last = [some |-> TRUE,
                                    given |-> session_ended_event(session.sid,
                                                                  session.uid),
                                    ctx |-> context, dict |-> e],
                                         !.sends = Append(@, e.event_type)]
                          ELSE k,
                          outcome)
            ELSE ClientOnly(k)
       ELSE ClientOnly(left)

\* set_context(correlation_id=...) called before the session or in its body
SessionSetContext(cid) ==
    /\ session.pc \in {"none", "body"}
    /\ KSetContext(Nil, Nil, cid)

BodyEvents == {Event("product.viewed", "", Nil, Nil, Nil),
               Event("order.placed", "", Nil, "own", Nil)}

\* a client, enabled or not, whose context may have been set before the session
InitSession ==
    /\ InitCore /\ fail_fast = FALSE
    /\ ad = NewAdapter("eventhub", TRUE)
    /\ WritersIdle /\ PartitionIdle /\ LifeIdle
    /\ \E en \in BOOLEAN : kl = NewClientOf(en, "customer-agent", "test", "2.0.0")

NextSession ==
    \/ \E sid \in SessionIds, uid \in UserIds, f \in BOOLEAN, o \in Outcomes :
            SessionEnter(sid, uid, f, o)
    \/ \E e \in BodyEvents, o \in Outcomes : SessionEmit(e, o)
    \/ \E r \in BOOLEAN, o \in Outcomes : SessionExit(r, o)
    \/ \E cid \in CorrelationIds : SessionSetContext(cid)

SpecSession == InitSession /\ [][NextSession]_vars

\* ------------------------------------------------- C19
\* C19: emit() and emit_batch() never raise and give their caller a boolean,
\* whether the destination write succeeds, fails or is skipped for want of the
\* library, and emit_batch() returns False when its destination write failed.
C19_ClientReturnsBoolean ==
    ret.op \in {"emit", "emit_batch"} =>
        /\ ret.kind = "bool"
        /\ ret.op = "emit_batch" /\ kWrite = "exc" => ~ret.success

\* ------------------------------------------------- C20
\* C20: a client constructed with enabled=False never calls its sink, whatever
\* the sequence of start, emit, emit_batch and stop: the sink is not started,
\* no send or send_batch is made on it, and every emit and emit_batch returns
\* False.
C20_DisabledClientIsInert ==
    ~enabled =>
        /\ sinkCalls = {}
        /\ ~started /\ ~running
        /\ buffer = <<>> /\ writes = <<>>
        /\ ret.op \in {"emit", "emit_batch"} => ret = BoolRet(ret.op, FALSE)

\* a disabled client returned from emit_batch()
C20_Witness == ~enabled /\ ret = BoolRet("emit_batch", FALSE)

\* ------------------------------------------------- C24
\* the processes inside a drain-and-write: a send()-triggered flush, a flush(),
\* a periodic flush or the final flush of stop()
Flushing == {p \in Procs : pc[p] \in FlushPcs}

\* C24: at most one drain-and-write is in flight on the sink at any time, whoever
\* started it, so no event belongs to two flush attempts in flight and two drains
\* of the buffer never interleave: the one in flight owns the lock.
C24_OneFlushInFlight ==
    /\ Cardinality(Flushing) <= 1
    /\ \A p, q \in Flushing : p # q => Range(arg[p]) \cap Range(arg[q]) = {}
    /\ \A p \in Flushing : lockQ # <<>> /\ Head(lockQ) = p

\* a periodic flush writes while one caller's send() and another caller's stop()
\* wait for the lock
C24_Witness ==
    /\ \E t \in Tasks : pc[t] = "writing" /\ arg[t] # <<>>
    /\ \E c \in Callers : pc[c] = "send_lock"
    /\ \E c \in Callers : pc[c] \in {"flush_lock", "stop_lock"}

\* ------------------------------------------------- C25
\* C25: the lock is held only while the buffer is changed in memory and never
\* while a destination write is in progress, so a send() can append to the
\* buffer during the destination write of a flush.
C25_LockFreeDuringWrite ==
    /\ \A p \in Flushing : lockQ = <<>> \/ Head(lockQ) # p
    /\ \A c \in Callers : pc[c] = "send_lock" => Flushing = {}

\* ------------------------------------------------- C26
\* C26: the final flush of stop() never runs together with a periodic flush, and
\* once stop() has returned no periodic task flushes or waits to flush until
\* start() is called again.
C26_NoBackgroundFlushAfterStop ==
    /\ (\E c \in Callers : pc[c] = "stop_write") =>
            ~ \E t \in Tasks : pc[t] = "writing"
    /\ (~running /\ \A c \in Callers : pc[c] \notin StopPcs) =>
            ~ \E t \in Tasks : pc[t] \in {"lockwait", "writing"}

\* ------------------------------------------------- C27
\* C27: the composite keeps no events of its own: when a send() or a flush() of
\* the composite has returned its buffer is empty, in either mode and whatever
\* the children did.
C27_CompositeBufferEmpty ==
    (cOp = "none" /\ ret.op \in {"send", "flush"}) => buffer = <<>>

\* ------------------------------------------------- C29
\* C29: in best-effort mode send_batch() and flush() of the composite return
\* success=True with events_sent equal to the length of the batch they wrote,
\* even when one or all children failed, and none of the events is put into the
\* composite's buffer for a retry.
C29_BestEffortReportsSuccess ==
    (~fail_fast /\ cOp = "none" /\ ret.op \in {"send_batch", "flush"}) =>
        /\ ret = SinkResult(ret.op, TRUE, Len(cEvents))
        /\ Range(cEvents) \cap Range(buffer) = {}
        /\ ret.op = "flush" => buffer = <<>>

\* a best-effort send_batch() of two events returned success=True and 2 although
\* every child failed
C29_Witness ==
    /\ ~fail_fast
    /\ cOp = "none"
    /\ ret = SinkResult("send_batch", TRUE, 2)
    /\ Len(calls) = NumChildren
    /\ \A i \in 1..Len(calls) : calls[i].outcome # "ok"
    /\ buffer = <<>>

\* ------------------------------------------------- C28
\* C28: on an enabled client, whatever the sequence of start() and stop() calls,
\* the calls of sink.start and sink.stop alternate and begin with sink.start:
\* sink.start is called only while the client is not started and sink.stop only
\* while it is, so a repeated start() reaches the sink once.
C28_SinkLifecycleAlternates ==
    enabled =>
        /\ \A i \in 1..Len(sinkLife) :
              sinkLife[i] = IF i % 2 = 1 THEN "start" ELSE "stop"
        /\ started <=> Len(sinkLife) % 2 = 1

\* a second start() of a started client returned without a call of the sink
C28_Witness ==
    /\ enabled /\ started
    /\ sinkLife = <<"start">>
    /\ ret = VoidRet("client.start")
    /\ kSkipped

\* ------------------------------------------------- C21
\* the event types given to sink.send since the session was entered
SessionSends == SubSeq(sends, session.base + 1, Len(sends))

Filled(d, f, own, ctx) ==
    IF Truthy(own) THEN d[f] = own
    ELSE IF Truthy(ctx) THEN d[f] = ctx
    ELSE IF own = Nil THEN f \notin DOMAIN d
    ELSE d[f] = own

RECURSIVE Lines(_)
Lines(text) ==
    IF text = <<>> THEN <<>>
    ELSE LET ends == {i \in 1..Len(text) : text[i] = LF}
             n == IF ends = {} THEN Len(text)
                  ELSE CHOOSE i \in ends : \A j \in ends : i <= j
         IN <<SubSeq(text, 1, IF ends = {} THEN n ELSE n - 1)>>
                \o Lines(SubSeq(text, n + 1, Len(text)))

\* C23: with pretty_print=False the console sink prints one line per event of the
\* batch, in batch order, the i-th line being the JSON text of the i-th event; a
\* batch of one event gives one line.
C23_OneLinePerEvent ==
    (pKind = "console" /\ ~pretty_print /\ stdout # <<>>) =>
        /\ Len(Lines(stdout)) = Len(pBatch)
        /\ \A i \in 1..Len(pBatch) : Lines(stdout)[i] = json_dumps(pBatch[i])

\* two events were printed on two lines although the value of the first holds a
\* line feed
C23_Witness ==
    /\ pKind = "console" /\ ~pretty_print
    /\ Len(pBatch) = 2
    /\ LF \in Range(pBatch[1])
    /\ Len(Lines(stdout)) = 2

\* ------------------------------------------------- C30
\* C30: a batch write of OneLakeSink never goes through a client handle that was
\* closed: the handle closed at the end of one batch write is not the one the next
\* batch write uses.
C30_WritesUseOpenClient ==
    (pKind = "onelake" /\ olUse.handle # 0) => olUse.open
====
